---- MODULE Spec2Model ----
(***************************************************************************)
(* Model of elephant/spike_train_generation.py: the renewal-process        *)
(* sampler _homogeneous_process.                                           *)
(*                                                                         *)
(* Quantities are integers tagged with a unit.  The time unit of the       *)
(* window (t_stop.units) is "s" or "ms"; the rate is a rational number of  *)
(* Hz, <<numerator, denominator>>; the draw primitive returns ISIs that    *)
(* are whole numbers of 1/Hz = 1 s, which rescale converts to the window's *)
(* unit.  t_start and t_stop are given in the same unit.                   *)
(***************************************************************************)
EXTENDS Integers, Sequences, FiniteSets

VARIABLES
    tu,            \* t_stop.units: "s" or "ms"
    t_start,       \* magnitude of t_start, in tu
    t_stop,        \* magnitude of t_stop, in tu
    mean_rate,     \* <<num, den>>: mean_rate = num/den Hz
    pc,            \* position in _homogeneous_process
    n,             \* line 24
    estimate,      \* number after line 25
    number,        \* number after line 27
    spikes,        \* the spikes array (magnitudes in tu)
    extra_spikes,  \* the extra_spikes list
    t_last,        \* line 37 / 40
    draws,         \* every ISI the draw primitive has returned, in draw order (in s)
    calls,         \* the size argument of every call of the draw primitive
    result         \* the returned object

vars ==
    <<tu, t_start, t_stop, mean_rate, pc, n, estimate, number,
      spikes, extra_spikes, t_last, draws, calls, result>>

(***************************************************************************)
(* Bounds                                                                  *)
(***************************************************************************)
MaxISI ==
    2
MaxStart ==
    1
MaxStop ==
    3
MaxRateNum ==
    30
SizeMaxStop ==
    4

\* The draw primitives of the model return an ISI of zero to at most this
\* many of the size=1 calls of one invocation.
MaxZeroDraws ==
    4

Units ==
    {"s", "ms"}

\* Rates of the sampling runs and of the sizing runs.
RateSet ==
    {<<1, 3>>, <<1, 5>>}
SizeRateSet ==
    {<<p, q>> : p \in 1..MaxRateNum, q \in 1..3}

\* Values the draw primitive can return: non-negative ISIs.
ISIValues ==
    0..MaxISI

\* Values of t_start by unit: whole seconds.
StartGrid(u, maxSec) ==
    IF u = "ms" THEN {1000 * k : k \in 0..maxSec} ELSE 0..maxSec

\* Values of t_stop by unit: whole seconds, or multiples of 500 ms.
StopGrid(u, maxSec) ==
    IF u = "ms" THEN {500 * k : k \in 0..(2 * maxSec)} ELSE 0..maxSec

(***************************************************************************)
(* Quantities                                                              *)
(***************************************************************************)
PerSecond(u) ==
    IF u = "ms" THEN 1000 ELSE 1

\* rescale(x): x / mean_rate.units is x seconds; rescaled to t_stop.units.
rescale(x, u) ==
    x * PerSecond(u)

\* The result of np.sqrt of a negative number, and of arithmetic on it.
NaN ==
    -1

\* Comparisons of line 26 and 28: every comparison with nan is False.
Less(x, y) ==
    x # NaN /\ y # NaN /\ x < y
Greater(x, y) ==
    x # NaN /\ y # NaN /\ x > y

Min(a, b) ==
    IF a < b THEN a ELSE b

\* ((t_stop - t_start) * mean_rate).simplified as the fraction P/Q.
CountNum(ts, te, rate) ==
    (te - ts) * rate[1]
CountDen(rate, u) ==
    rate[2] * PerSecond(u)

\* int(x) of a fraction: truncation toward zero.
IntTrunc(p, q) ==
    IF p >= 0 THEN p \div q ELSE -((-p) \div q)

\* Faulty variant of line 24: round() to the nearest integer instead of int().
IntRound(p, q) ==
    (2 * p + q) \div (2 * q)

\* Line 24: n = int(((t_stop - t_start) * mean_rate).simplified)
ExpectedCount(p, q) ==
    IntTrunc(p, q)

\* ceil(sqrt(m)) for an integer m >= 0.
CeilSqrt(m) ==
    CHOOSE r \in 0..(m + 1) : r * r >= m /\ \A s \in 0..(r - 1) : s * s < m

\* Line 25: np.ceil(n + 3 * np.sqrt(n)); n is an integer, 3*sqrt(n) = sqrt(9n).
CeilEstimate(k) ==
    IF k < 0 THEN NaN ELSE k + CeilSqrt(9 * k)

\* Faulty variant of line 27: the floor of 5 left out.
AdjustNoFloor(est, k) ==
    IF Less(est, 100) THEN Min(2 * k, 100) ELSE est

\* Faulty variant of line 27: n instead of 2 * n.
AdjustNoDouble(est, k) ==
    IF Less(est, 100) THEN Min(5 + k, 100) ELSE est

\* Lines 26-27: if number < 100: number = min(5 + np.ceil(2 * n), 100)
AdjustNumber(est, k) ==
    IF Less(est, 100) THEN Min(5 + 2 * k, 100) ELSE est

(***************************************************************************)
(* Arrays                                                                  *)
(***************************************************************************)
RECURSIVE SumTo(_, _)
\* s[1] + ... + s[i]
SumTo(s, i) ==
    IF i = 0 THEN 0 ELSE SumTo(s, i - 1) + s[i]

\* np.cumsum
cumsum(s) ==
    [i \in 1..Len(s) |-> SumTo(s, i)]

\* Lines 29-31: rescale the ISIs, cumulate, add t_start.
CandidateTimes(raw, u, ts) ==
    [i \in 1..Len(raw) |-> cumsum([j \in 1..Len(raw) |-> rescale(raw[j], u)])[i] + ts]

RECURSIVE bisect(_, _, _, _)
\* The binary search of np.searchsorted, side='left'; lo and hi are 0-based.
bisect(a, v, lo, hi) ==
    IF lo >= hi THEN lo
    ELSE LET mid == lo + ((hi - lo) \div 2)
         IN  IF a[mid + 1] < v THEN bisect(a, v, mid + 1, hi)
                               ELSE bisect(a, v, lo, mid)

\* Faulty variant of line 33: searchsorted with side='right'.
RECURSIVE bisectRight(_, _, _, _)
bisectRight(a, v, lo, hi) ==
    IF lo >= hi THEN lo
    ELSE LET mid == lo + ((hi - lo) \div 2)
         IN  IF a[mid + 1] <= v THEN bisectRight(a, v, mid + 1, hi)
                                ELSE bisectRight(a, v, lo, mid)

searchsortedRight(a, v) ==
    bisectRight(a, v, 0, Len(a))

\* Line 33: spikes.searchsorted(t_stop)
searchsorted(a, v) ==
    bisect(a, v, 0, Len(a))

\* Faulty variant of line 38: while t_last <= t_stop.
LoopCondLE(t, stop) ==
    t <= stop

\* Line 38: while t_last < t_stop
LoopCond(t, stop) ==
    t < stop

\* Faulty variant of line 37: spikes[0] instead of spikes[-1].
FirstSpike(s) ==
    s[1]

\* spikes[-1]
LastSpike(s) ==
    s[Len(s)]

\* The object before the function returns anything.
NoResult ==
    [kind |-> "none"]

\* The numeric time values an object returned by the function holds.
Times(r) ==
    IF r.kind = "array" THEN r.magnitude
    ELSE IF r.kind = "SpikeTrain" THEN r.times
    ELSE <<>>

(***************************************************************************)
(* The sampling runs                                                       *)
(***************************************************************************)
Locals ==
    /\ pc = "estimate"
    /\ n = 0
    /\ estimate = 0
    /\ number = 0
    /\ spikes = <<>>
    /\ extra_spikes = <<>>
    /\ t_last = 0
    /\ draws = <<>>
    /\ calls = <<>>
    /\ result = NoResult

Init ==
    /\ tu \in Units
    /\ t_start \in StartGrid(tu, MaxStart)
    /\ t_stop \in StopGrid(tu, MaxStop)
    /\ t_start <= t_stop
    /\ mean_rate \in RateSet
    /\ Locals

\* The sizing runs: any window, inverted ones included, and rates up to
\* MaxRateNum Hz.
InitSize ==
    /\ tu \in Units
    /\ t_start \in StartGrid(tu, MaxStart)
    /\ t_stop \in StopGrid(tu, SizeMaxStop)
    /\ mean_rate \in SizeRateSet
    /\ Locals

\* Lines 24-25
Estimate ==
    /\ pc = "estimate"
    /\ LET k == ExpectedCount(CountNum(t_start, t_stop, mean_rate), CountDen(mean_rate, tu))
       IN  /\ n' = k
           /\ estimate' = CeilEstimate(k)
    /\ pc' = "adjust"
    /\ UNCHANGED <<tu, t_start, t_stop, mean_rate, number, spikes,
                   extra_spikes, t_last, draws, calls, result>>

\* Lines 26-28; a failed assertion ends the call.
Adjust ==
    /\ pc = "adjust"
    /\ LET m == AdjustNumber(estimate, n)
       IN  /\ number' = m
           /\ pc' = IF Greater(m, 4) THEN "draw" ELSE "assert_failed"
    /\ UNCHANGED <<tu, t_start, t_stop, mean_rate, n, estimate, spikes,
                   extra_spikes, t_last, draws, calls, result>>

\* Lines 29-31: one call of the draw primitive with size=number.
BulkDraw ==
    /\ pc = "draw"
    /\ draws' \in [1..number -> ISIValues]
    /\ spikes' = CandidateTimes(draws', tu, t_start)
    /\ calls' = <<number>>
    /\ pc' = "fit"
    /\ UNCHANGED <<tu, t_start, t_stop, mean_rate, n, estimate, number,
                   extra_spikes, t_last, result>>

\* The single draws (size=1) made so far that returned zero.
ZeroSingleDraws ==
    Cardinality({i \in (number + 1)..Len(draws) : draws[i] = 0})

\* Values a size=1 call of the draw primitive returns at line 40 in the runs
\* of Spec: any ISI, zero at most MaxZeroDraws times per call.  This bounds
\* the inputs, not the loop: a run in which the primitive returns zero for
\* ever never repeats a state (extra_spikes grows at every iteration) and is
\* outside every finite set of runs.
SingleISIValues ==
    IF ZeroSingleDraws < MaxZeroDraws THEN ISIValues ELSE ISIValues \ {0}

\* Faulty variant of lines 44-45: one more ISI drawn although the buffer sufficed.
TruncateRedraw ==
    /\ pc = "fit"
    /\ LET i == searchsorted(spikes, t_stop)
       IN  /\ i # Len(spikes)
           /\ spikes' = SubSeq(spikes, 1, i)
    /\ \E d \in SingleISIValues : draws' = Append(draws, d)
    /\ calls' = Append(calls, 1)
    /\ pc' = "package"
    /\ UNCHANGED <<tu, t_start, t_stop, mean_rate, n, estimate, number,
                   extra_spikes, t_last, result>>

\* Lines 33-34, 44-45: the buffer reaches t_stop; keep the first i entries.
Truncate ==
    /\ pc = "fit"
    /\ LET i == searchsorted(spikes, t_stop)
       IN  /\ i # Len(spikes)
           /\ spikes' = SubSeq(spikes, 1, i)
    /\ pc' = "package"
    /\ UNCHANGED <<tu, t_start, t_stop, mean_rate, n, estimate, number,
                   extra_spikes, t_last, draws, calls, result>>

\* Lines 33-37: the whole buffer lies before t_stop; draw one more ISI.
Underrun ==
    /\ pc = "fit"
    /\ searchsorted(spikes, t_stop) = Len(spikes)
    /\ extra_spikes' = <<>>
    /\ \E d \in ISIValues :
          /\ draws' = Append(draws, d)
          /\ t_last' = LastSpike(spikes) + rescale(d, tu)
    /\ calls' = Append(calls, 1)
    /\ pc' = "loop"
    /\ UNCHANGED <<tu, t_start, t_stop, mean_rate, n, estimate, number,
                   spikes, result>>

\* Faulty variant of lines 39-40: t_last advanced before it is appended.
ExtendAdvanceFirst ==
    /\ pc = "loop"
    /\ LoopCond(t_last, t_stop)
    /\ \E d \in SingleISIValues :
          /\ draws' = Append(draws, d)
          /\ t_last' = t_last + rescale(d, tu)
          /\ extra_spikes' = Append(extra_spikes, t_last + rescale(d, tu))
    /\ calls' = Append(calls, 1)
    /\ UNCHANGED <<tu, t_start, t_stop, mean_rate, pc, n, estimate, number,
                   spikes, result>>

\* Lines 38-40: one iteration of the extension loop.
Extend ==
    /\ pc = "loop"
    /\ LoopCond(t_last, t_stop)
    /\ extra_spikes' = Append(extra_spikes, t_last)
    /\ \E d \in SingleISIValues :
          /\ draws' = Append(draws, d)
          /\ t_last' = t_last + rescale(d, tu)
    /\ calls' = Append(calls, 1)
    /\ UNCHANGED <<tu, t_start, t_stop, mean_rate, pc, n, estimate, number,
                   spikes, result>>

\* Lines 38, 42-43: the loop exits; concatenate.
Concat ==
    /\ pc = "loop"
    /\ ~LoopCond(t_last, t_stop)
    /\ spikes' = spikes \o extra_spikes
    /\ pc' = "package"
    /\ UNCHANGED <<tu, t_start, t_stop, mean_rate, n, estimate, number,
                   extra_spikes, t_last, draws, calls, result>>

\* A container that keeps one event per distinct time.
Distinct(s) ==
    LET keep == {i \in 1..Len(s) : i = 1 \/ s[i] # s[i - 1]}
        idx(j) == CHOOSE i \in keep : Cardinality({h \in keep : h < i}) = j - 1
    IN  [j \in 1..Cardinality(keep) |-> s[idx(j)]]

\* Faulty variant of lines 50-51: the container drops repeated times.
PackageDistinct ==
    /\ pc = "package"
    /\ \E as_array \in BOOLEAN :
          result' = IF as_array
                    THEN [kind |-> "array", magnitude |-> spikes]
                    ELSE [kind |-> "SpikeTrain", times |-> Distinct(spikes),
                          t_start |-> t_start, t_stop |-> t_stop, units |-> tu]
    /\ pc' = "done"
    /\ UNCHANGED <<tu, t_start, t_stop, mean_rate, n, estimate, number,
                   spikes, extra_spikes, t_last, draws, calls>>

\* Lines 47-53.  The as_array flag is read nowhere else, so the call's flag
\* is drawn here.
Package ==
    /\ pc = "package"
    /\ \E as_array \in BOOLEAN :
          result' = IF as_array
                    THEN [kind |-> "array", magnitude |-> spikes]
                    ELSE [kind |-> "SpikeTrain", times |-> spikes,
                          t_start |-> t_start, t_stop |-> t_stop, units |-> tu]
    /\ pc' = "done"
    /\ UNCHANGED <<tu, t_start, t_stop, mean_rate, n, estimate, number,
                   spikes, extra_spikes, t_last, draws, calls>>

Next ==
    \/ Estimate
    \/ Adjust
    \/ BulkDraw
    \/ Truncate
    \/ Underrun
    \/ Extend
    \/ Concat
    \/ Package

NextSize ==
    \/ Estimate
    \/ Adjust

Spec ==
    Init /\ [][Next]_vars

SizeSpec ==
    InitSize /\ [][NextSize]_vars

(***************************************************************************)
(* Properties                                                              *)
(***************************************************************************)
Returned ==
    pc = "done"

Sized ==
    pc \in {"draw", "assert_failed"}

RECURSIVE Total(_)
\* The sum of the elements of s.
Total(s) ==
    IF s = <<>> THEN 0 ELSE Head(s) + Total(Tail(s))

\* The i-th cumulative time of the stream of ISIs drawn, in the window's unit.
StreamTime(i) ==
    t_start + Total(SubSeq(draws, 1, i)) * PerSecond(tu)

RECURSIVE NaiveRenewal(_, _, _, _)
\* The naive renewal sampler: add one ISI of the stream after the other and
\* stop at the first time that is not before stop.
NaiveRenewal(stream, t, stop, u) ==
    IF stream = <<>> THEN <<>>
    ELSE LET t1 == t + Head(stream) * PerSecond(u)
         IN  IF t1 < stop THEN <<t1>> \o NaiveRenewal(Tail(stream), t1, stop, u)
                          ELSE <<>>

\* The draws of the extension loop.
ExtensionDraws ==
    {draws[i] : i \in (number + 1)..Len(draws)}

\* C1: with t_start < t_stop, every returned event time t satisfies
\* t_start <= t < t_stop, in the truncation and in the extension branch.
C1_TimesInWindow ==
    (Returned /\ t_start < t_stop) =>
        \A i \in 1..Len(Times(result)) :
            t_start <= Times(result)[i] /\ Times(result)[i] < t_stop

\* An extension run whose last running time fell exactly on t_stop.
C1_Witness ==
    /\ Returned
    /\ t_start < t_stop
    /\ Len(extra_spikes) >= 1
    /\ t_last = t_stop

\* C2: with t_start < t_stop, the returned sequence is non-decreasing, also
\* across the junction between the bulk buffer and the extension points.
C2_NonDecreasing ==
    (Returned /\ t_start < t_stop) =>
        \A i \in 2..Len(Times(result)) : Times(result)[i - 1] <= Times(result)[i]

\* A returned sequence holding the whole buffer and two extension points.
C2_Witness ==
    /\ Returned
    /\ t_start < t_stop
    /\ Len(extra_spikes) >= 2
    /\ Len(Times(result)) = number + Len(extra_spikes)

\* C4: whenever the expected count (t_stop - t_start) * mean_rate is
\* non-negative, the sample count is at least 5 and the assertion passes.
C4_SizeAtLeastFive ==
    (Sized /\ CountNum(t_start, t_stop, mean_rate) >= 0) =>
        (pc = "draw" /\ number >= 5)

\* A sized call whose expected count lies strictly between 0 and 1.
C4_Witness ==
    /\ pc = "draw"
    /\ CountNum(t_start, t_stop, mean_rate) > 0
    /\ CountNum(t_start, t_stop, mean_rate) < CountDen(mean_rate, tu)
    /\ number = 5

\* C5: whichever wrapping the as_array flag selects, the returned object
\* holds exactly the time values computed before the flag was read, and
\* returning draws nothing.
C5_SameTimesEitherWrapping ==
    [][pc = "package" =>
          /\ Times(result') = spikes
          /\ result'.kind \in {"array", "SpikeTrain"}
          /\ draws' = draws
          /\ calls' = calls]_vars

\* A SpikeTrain returned with several events, two of them at the same time.
C5_Witness ==
    /\ Returned
    /\ result.kind = "SpikeTrain"
    /\ Len(Times(result)) >= 3
    /\ Times(result)[1] = Times(result)[2]

\* C6: the returned sequence is what the naive renewal sampler returns on
\* the stream of ISIs drawn, in draw order.
C6_EqualsNaiveRenewal ==
    Returned => Times(result) = NaiveRenewal(draws, t_start, t_stop, tu)

\* A truncated buffer: some events kept, several candidates dropped.
C6_Witness ==
    /\ Returned
    /\ Len(calls) = 1
    /\ Len(Times(result)) >= 2
    /\ Len(Times(result)) <= number - 2

\* The fraction p/q in lowest terms.
RECURSIVE Gcd(_, _)
Gcd(a, b) ==
    IF b = 0 THEN a ELSE Gcd(b, a % b)

CeilDiv(p, q) ==
    (p + q - 1) \div q

RECURSIVE LeastEstimate(_, _, _)
\* The least k >= k0 with k >= p/q + 3*sqrt(p/q).
LeastEstimate(p, q, k0) ==
    IF k0 * q >= p /\ (k0 * q - p) * (k0 * q - p) >= 9 * p * q
    THEN k0 ELSE LeastEstimate(p, q, k0 + 1)

\* The sample count of the formula on the exact expected count x = p/q >= 0:
\* ceil(x + 3*sqrt(x)) when that is >= 100, else min(5 + ceil(2x), 100).
SizeOfExactCount(p0, q0) ==
    LET g == Gcd(p0, q0)
        p == p0 \div g
        q == q0 \div g
        e == LeastEstimate(p, q, CeilDiv(p, q))
    IN  IF e >= 100 THEN e ELSE Min(5 + CeilDiv(2 * p, q), 100)

\* k = ceil(m + 3*sqrt(m)) for an integer m >= 0.
IsCeilEstimate(k, m) ==
    /\ k >= m
    /\ (k - m) * (k - m) >= 9 * m
    /\ (k - 1 < m \/ (k - 1 - m) * (k - 1 - m) < 9 * m)

\* C7 as stated: the sample count is the formula evaluated on the expected
\* count (t_stop - t_start) * mean_rate itself, non-integer values included.
C7_SizeOfExactCount ==
    (pc = "draw" /\ CountNum(t_start, t_stop, mean_rate) >= 0) =>
        number = SizeOfExactCount(CountNum(t_start, t_stop, mean_rate),
                                  CountDen(mean_rate, tu))

\* C7 amended: the sample count is the formula evaluated on m, the expected
\* count truncated to an integer.
C7_SizeOfTruncatedCount ==
    (pc = "draw" /\ CountNum(t_start, t_stop, mean_rate) >= 0) =>
        LET p == CountNum(t_start, t_stop, mean_rate)
            q == CountDen(mean_rate, tu)
        IN  \E m \in 0..CeilDiv(p, q) :
               /\ m * q <= p
               /\ p < (m + 1) * q
               /\ \E e \in m..(4 * m) :
                     /\ IsCeilEstimate(e, m)
                     /\ number = IF e >= 100 THEN e ELSE Min(5 + 2 * m, 100)

\* A sized call with a non-integer expected count and an estimate of 100 or more.
C7_Witness ==
    /\ pc = "draw"
    /\ CountNum(t_start, t_stop, mean_rate) > 0
    /\ CountNum(t_start, t_stop, mean_rate) % CountDen(mean_rate, tu) # 0
    /\ estimate >= 100

\* C8: on underrun the result is the whole buffer, unchanged and in order,
\* then the extension points: each is its predecessor plus one fresh ISI,
\* the first one following the last buffer time, and the overshoot point is
\* not appended.
C8_UnderrunLayout ==
    (Returned /\ Len(calls) > 1) =>
        LET r == Times(result)
        IN  /\ Len(r) = number + Len(extra_spikes)
            /\ \A i \in 1..number : r[i] = StreamTime(i) /\ r[i] < t_stop
            /\ \A j \in 1..Len(extra_spikes) :
                  r[number + j] = r[number + j - 1] + draws[number + j] * PerSecond(tu)
            /\ Len(draws) = Len(r) + 1
            /\ r[Len(r)] + draws[Len(draws)] * PerSecond(tu) >= t_stop

\* An underrun that appended three extension points.
C8_Witness ==
    /\ Returned
    /\ Len(calls) > 1
    /\ Len(extra_spikes) = 3

\* C9: the primitive is called once with size = the sample count; without
\* underrun it is not called again; the single draws of an underrun number
\* the appended extension points plus one.
C9_DrawCalls ==
    Returned =>
        /\ calls[1] = number
        /\ \A i \in 2..Len(calls) : calls[i] = 1
        /\ Len(draws) = number + Len(calls) - 1
        /\ (\E i \in 1..number : StreamTime(i) >= t_stop) => Len(calls) = 1
        /\ Len(calls) > 1 =>
              /\ \A i \in 1..number : StreamTime(i) < t_stop
              /\ Len(calls) - 1 = (Len(Times(result)) - number) + 1

\* A call without underrun that returned events.
C9_Witness ==
    /\ Returned
    /\ Len(calls) = 1
    /\ Len(Times(result)) = 1
    /\ \E i \in 1..number : StreamTime(i) > t_stop

\* C10: an estimate below 100 is replaced by a count that is at least the
\* estimate and at most 100; an estimate of 100 or more is left unchanged.
C10_AdjustmentOnlyRaises ==
    (Sized /\ n >= 0) =>
        /\ estimate < 100 => (number >= estimate /\ number <= 100)
        /\ estimate >= 100 => number = estimate

\* An estimate just below 100, raised to 100.
C10_Witness ==
    /\ pc = "draw"
    /\ estimate >= 95
    /\ estimate < 100
    /\ number = 100

====
